---- MODULE Spec2Model ----
(***************************************************************************)
(* Model of src/app/app.py: a Flask API over two SQLite tables (User,      *)
(* FinancialRecord) with bcrypt password hashes and flask_jwt_extended     *)
(* access tokens.  One action per route.  A route handler runs inside one  *)
(* request; its only access to shared state is the SQLAlchemy session,     *)
(* whose commit is one SQLite transaction, so each handler is one atomic   *)
(* step over the store.                                                    *)
(*                                                                         *)
(* The app registers no JWT loader callbacks and sets no JWT option other  *)
(* than JWT_SECRET_KEY (lines 17, 22), and sets no SQLite pragma (line 15),*)
(* so the library defaults decide: token lifetime, the status of each      *)
(* token error, and foreign keys that are declared but not enforced.       *)
(***************************************************************************)
EXTENDS Integers, Sequences, FiniteSets, TLC

VARIABLES
    users,     \* table user: sequence of rows in id order (rows are never deleted)
    records,   \* table financial_record: sequence of rows in id (rowid) order
    tokens,    \* per account, the access token of its latest login (held by the client)
    now,       \* the server clock, in ticks
    last       \* the last request served and its response

vars == <<users, records, tokens, now, last>>

----------------------------------------------------------------------------
(* Bounds of the model *)

MaxTime == 2        \* the clock stops here
MaxRecordId == 2    \* no record is inserted with a larger id
MaxGraphLen == 3    \* longest record table SpecGraph starts from

(* Inputs of the requests *)

Emails == {"a@x", "b@x"}
Passwords == {"pw1", "pw2"}
TargetUserIds == {1, 2}
RecordIds == 1..MaxRecordId

Months == {<<"J", "a", "n">>}
Years == {2024}
Amounts == {100}

(* JSON bodies.  "role" is optional in the body of /api/register. *)
Ann == [name |-> "Ann", email |-> "a@x", password |-> "pw1"]
Bob == [name |-> "Bob", email |-> "b@x", password |-> "pw2", role |-> "admin"]
Eve == [name |-> "Eve", email |-> "a@x", password |-> "pw2", role |-> "root"]

RegisterBodies == {Ann, Bob, Eve}
LoginBodies == [email : Emails, password : Passwords]
RecordBodies == [month : Months, year : Years, paid_in : Amounts]
AdminRecordBodies ==
    [user_id : TargetUserIds, month : Months, year : Years, paid_in : Amounts]

----------------------------------------------------------------------------
(* Configuration *)

JWT_SECRET_KEY == "your-secret-key"

\* flask_jwt_extended's default lifetime of an access token (15 minutes),
\* counted in clock ticks: one tick of the clock is 15 minutes.
JWT_ACCESS_TOKEN_EXPIRES == 1

----------------------------------------------------------------------------
(* Password hashing: flask_bcrypt *)

\* The digest carries its salt and check_password_hash reads it from there;
\* it is modelled as the tagged password (passwords within bcrypt's 72 bytes).
generate_password_hash(password) == <<"$2b$12$", password>>

check_password_hash(pw_hash, password) == pw_hash = generate_password_hash(password)

----------------------------------------------------------------------------
(* Credentials of a request: the Authorization header *)

NoIdentity == [id |-> 0, role |-> ""]

\* no Authorization header
NoHeader == [kind |-> "none", identity |-> NoIdentity, exp |-> 0, key |-> ""]
\* a header that does not hold a JWT
Malformed == [kind |-> "malformed", identity |-> NoIdentity, exp |-> 0, key |-> ""]

\* a JWT signed with `key`
Jwt(identity, exp, key) ==
    [kind |-> "jwt", identity |-> identity, exp |-> exp, key |-> key]

create_access_token(identity, t) ==
    Jwt(identity, t + JWT_ACCESS_TOKEN_EXPIRES, JWT_SECRET_KEY)

\* tokens a client without the secret can make: any identity, any expiry
ForgedTokens ==
    { Jwt([id |-> 1, role |-> "admin"], MaxTime + 1, "guessed-key") }

\* the tokens login has issued and clients still hold
IssuedTokens == { tokens[e] : e \in Emails } \ {NoHeader}

Credentials == {NoHeader, Malformed} \cup ForgedTokens \cup IssuedTokens

\* verify_jwt_in_request without the expiry check
verify_without_expiry(cred, t) ==
    CASE cred.kind = "none" -> "NoAuthorizationError"
      [] cred.kind = "malformed" -> "DecodeError"
      [] cred.key # JWT_SECRET_KEY -> "InvalidSignatureError"
      [] OTHER -> "ok"

\* jwt_required(): verify_jwt_in_request.  The signature is checked before
\* the claims; a token is expired from the instant exp on.
verify_jwt_in_request(cred, t) ==
    CASE cred.kind = "none" -> "NoAuthorizationError"
      [] cred.kind = "malformed" -> "DecodeError"
      [] cred.key # JWT_SECRET_KEY -> "InvalidSignatureError"
      [] cred.exp <= t -> "ExpiredSignatureError"
      [] OTHER -> "ok"

\* The response of the error handlers JWTManager(app) installs.
jwt_error_response(err) ==
    CASE err = "NoAuthorizationError" ->
            [status |-> 401, body |-> [msg |-> "Missing Authorization Header"]]
      [] err = "ExpiredSignatureError" ->
            [status |-> 401, body |-> [msg |-> "Token has expired"]]
      [] err = "InvalidSignatureError" ->
            [status |-> 422, body |-> [msg |-> "Signature verification failed"]]
      [] OTHER ->
            [status |-> 422, body |-> [msg |-> "Not enough segments"]]

get_jwt_identity(cred) == cred.identity

----------------------------------------------------------------------------
(* The store *)

User(id, name, email, password, role) ==
    [id |-> id, name |-> name, email |-> email, password |-> password, role |-> role]

FinancialRecord(id, user_id, month, year, paid_in) ==
    [id |-> id, user_id |-> user_id, month |-> month, year |-> year,
     paid_in |-> paid_in]

Range(s) == { s[i] : i \in DOMAIN s }

\* body.get(key, default)
BodyGet(body, key, default) == IF key \in DOMAIN body THEN body[key] ELSE default

\* User.query.filter_by(email=email).first(): a one-element or empty sequence
user_by_email(email) == SelectSeq(users, LAMBDA u : u.email = email)

\* User.query.get(id)
user_by_id(id) == SelectSeq(users, LAMBDA u : u.id = id)

\* FinancialRecord.query.filter_by(user_id=user_id).all(): rowid order
records_of(recs, user_id) == SelectSeq(recs, LAMBDA r : r.user_id = user_id)

\* record_to_delete filtering on the id alone
record_by_id_only(recs, id, user_id) == SelectSeq(recs, LAMBDA r : r.id = id)

\* FinancialRecord.query.filter_by(id=id, user_id=user_id).first()
record_to_delete(recs, id, user_id) ==
    SelectSeq(recs, LAMBDA r : r.id = id /\ r.user_id = user_id)

\* The id SQLite gives a new row of an INTEGER PRIMARY KEY table: one more
\* than the largest id in the table.
next_id(table) ==
    IF table = <<>> THEN 1
    ELSE 1 + (CHOOSE m \in { r.id : r \in Range(table) } :
                 \A r \in Range(table) : r.id <= m)

----------------------------------------------------------------------------
(* Requests and responses *)

NoBody == <<>>

Served(op, cred, req, current_user, status, body) ==
    [op |-> op, cred |-> cred, req |-> req, current_user |-> current_user,
     status |-> status, body |-> body]

\* A protected route whose token check fails: the decorator answers, the
\* handler body does not run and the request body is never read.
Rejected(op, cred) ==
    LET r == jwt_error_response(verify_jwt_in_request(cred, now))
    IN  /\ last' = Served(op, cred, NoBody, NoIdentity, r.status, r.body)
        /\ UNCHANGED <<users, records, tokens, now>>

Init ==
    /\ users = <<>>
    /\ records = <<>>
    /\ tokens = [e \in Emails |-> NoHeader]
    /\ now = 0
    /\ last = Served("none", NoHeader, NoBody, NoIdentity, 0, NoBody)

----------------------------------------------------------------------------
(* POST /api/register *)

register(data) ==
    LET new_user == User(next_id(users), data.name, data.email,
                         generate_password_hash(data.password),
                         BodyGet(data, "role", "user"))
    IN  IF user_by_email(data.email) # <<>>
        THEN \* commit raises IntegrityError (unique email); nothing catches it
             /\ last' = Served("register", NoHeader, data, NoIdentity, 500,
                               [message |-> "Internal Server Error"])
             /\ UNCHANGED <<users, records, tokens, now>>
        ELSE /\ users' = Append(users, new_user)
             /\ last' = Served("register", NoHeader, data, NoIdentity, 201,
                               [message |-> "User registered successfully!"])
             /\ UNCHANGED <<records, tokens, now>>

----------------------------------------------------------------------------
(* POST /api/login *)

\* login_identity with the role column's default in place of the user's role
login_identity_default_role(user) == [id |-> user.id, role |-> "user"]

login_identity(user) == [id |-> user.id, role |-> user.role]

\* login_response telling an unknown email from a wrong password
login_response_leaky(data) ==
    LET found == user_by_email(data.email)
    IN  IF found = <<>>
        THEN [status |-> 404, body |-> [message |-> "User not found"]]
        ELSE IF check_password_hash(found[1].password, data.password)
             THEN [status |-> 200,
                   body |-> [token |-> create_access_token(login_identity(found[1]), now),
                             role |-> found[1].role]]
             ELSE [status |-> 401, body |-> [message |-> "Invalid credentials"]]

login_response(data) ==
    LET found == user_by_email(data.email)
    IN  IF found # <<>> /\ check_password_hash(found[1].password, data.password)
        THEN [status |-> 200,
              body |-> [token |-> create_access_token(login_identity(found[1]), now),
                        role |-> found[1].role]]
        ELSE [status |-> 401, body |-> [message |-> "Invalid credentials"]]

login(data) ==
    LET r == login_response(data)
    IN  /\ tokens' = IF r.status = 200
                     THEN [tokens EXCEPT ![data.email] = r.body.token]
                     ELSE tokens
        /\ last' = Served("login", NoHeader, data, NoIdentity, r.status, r.body)
        /\ UNCHANGED <<users, records, now>>

----------------------------------------------------------------------------
(* GET /api/records *)

record_json(r) ==
    [id |-> r.id, month |-> r.month, year |-> r.year, paid_in |-> r.paid_in]

\* the list comprehension of lines 82-92
records_json(recs) == [i \in DOMAIN recs |-> record_json(recs[i])]

get_records(cred) ==
    IF verify_jwt_in_request(cred, now) # "ok"
    THEN Rejected("get_records", cred)
    ELSE LET current_user == get_jwt_identity(cred)
         IN  /\ last' = Served("get_records", cred, NoBody, current_user, 200,
                               records_json(records_of(records, current_user.id)))
             /\ UNCHANGED <<users, records, tokens, now>>

(* POST /api/records *)

add_record(cred, data) ==
    IF verify_jwt_in_request(cred, now) # "ok"
    THEN Rejected("add_record", cred)
    ELSE LET current_user == get_jwt_identity(cred)
         IN  /\ next_id(records) <= MaxRecordId
             /\ records' = Append(records,
                    FinancialRecord(next_id(records), current_user.id,
                                    data.month, data.year, data.paid_in))
             /\ last' = Served("add_record", cred, data, current_user, 201,
                               [message |-> "Record added successfully!"])
             /\ UNCHANGED <<users, tokens, now>>

(* GET /api/user/details *)

get_user_details(cred) ==
    IF verify_jwt_in_request(cred, now) # "ok"
    THEN Rejected("get_user_details", cred)
    ELSE LET current_user == get_jwt_identity(cred)
             user == user_by_id(current_user.id)
         IN  /\ last' =
                    IF user = <<>>
                    THEN Served("get_user_details", cred, NoBody, current_user, 404,
                                [message |-> "user not found"])
                    ELSE Served("get_user_details", cred, NoBody, current_user, 200,
                                [id |-> user[1].id, name |-> user[1].name,
                                 email |-> user[1].email, role |-> user[1].role])
             /\ UNCHANGED <<users, records, tokens, now>>

----------------------------------------------------------------------------
(* GET /api/graph-data *)

DigitChars == <<"0", "1", "2", "3", "4", "5", "6", "7", "8", "9">>

\* str(n) of a natural number, as a sequence of characters
RECURSIVE IntToStr(_)
IntToStr(n) ==
    IF n < 10 THEN <<DigitChars[n + 1]>>
    ELSE IntToStr(n \div 10) \o <<DigitChars[(n % 10) + 1]>>

\* f"{record.month} {record.year}"
month_year(record) == record.month \o <<" ">> \o IntToStr(record.year)

\* the loop of lines 156-160 over recs[i..]
RECURSIVE graph_loop(_, _, _, _)
graph_loop(recs, i, labels, values) ==
    IF i > Len(recs) THEN [labels |-> labels, values |-> values]
    ELSE IF month_year(recs[i]) \notin Range(labels)
         THEN graph_loop(recs, i + 1, Append(labels, month_year(recs[i])),
                         Append(values, recs[i].paid_in))
         ELSE graph_loop(recs, i + 1, labels, values)

\* graph_data adding up paid_in per label instead of keeping the first
RECURSIVE graph_sum_loop(_, _, _, _)
graph_sum_loop(recs, i, labels, values) ==
    IF i > Len(recs) THEN [labels |-> labels, values |-> values]
    ELSE IF month_year(recs[i]) \notin Range(labels)
         THEN graph_sum_loop(recs, i + 1, Append(labels, month_year(recs[i])),
                             Append(values, recs[i].paid_in))
         ELSE LET k == CHOOSE j \in DOMAIN labels : labels[j] = month_year(recs[i])
              IN  graph_sum_loop(recs, i + 1, labels,
                                 [values EXCEPT ![k] = @ + recs[i].paid_in])

graph_data_sum(recs) == graph_sum_loop(recs, 1, <<>>, <<>>)

graph_data(recs) == graph_loop(recs, 1, <<>>, <<>>)

get_graph_data(cred) ==
    IF verify_jwt_in_request(cred, now) # "ok"
    THEN Rejected("get_graph_data", cred)
    ELSE LET current_user == get_jwt_identity(cred)
         IN  /\ last' = Served("get_graph_data", cred, NoBody, current_user, 200,
                               graph_data(records_of(records, current_user.id)))
             /\ UNCHANGED <<users, records, tokens, now>>

----------------------------------------------------------------------------
(* DELETE /api/records/<int:id> *)

delete_record(cred, id) ==
    IF verify_jwt_in_request(cred, now) # "ok"
    THEN Rejected("delete_record", cred)
    ELSE LET current_user == get_jwt_identity(cred)
             record == record_to_delete(records, id, current_user.id)
         IN  IF record # <<>>
             THEN /\ records' = SelectSeq(records, LAMBDA r : r # record[1])
                  /\ last' = Served("delete_record", cred, [id |-> id], current_user,
                                    200, [message |-> "Record deleted successfully!"])
                  /\ UNCHANGED <<users, tokens, now>>
             ELSE /\ last' = Served("delete_record", cred, [id |-> id], current_user,
                                    404, [message |-> "Record not found"])
                  /\ UNCHANGED <<users, records, tokens, now>>

----------------------------------------------------------------------------
(* The role gate of the admin routes (lines 188, 203) *)

\* access_denied with the gate left out
access_denied_never(current_user) == FALSE

access_denied(current_user) == current_user.role # "admin"

(* GET /api/admin/users *)

user_json(u) == [id |-> u.id, name |-> u.name, email |-> u.email, role |-> u.role]

\* the list comprehension of lines 191-196
users_json(us) == [i \in DOMAIN us |-> user_json(us[i])]

get_all_users(cred) ==
    IF verify_jwt_in_request(cred, now) # "ok"
    THEN Rejected("get_all_users", cred)
    ELSE LET current_user == get_jwt_identity(cred)
         IN  /\ last' =
                    IF access_denied(current_user)
                    THEN Served("get_all_users", cred, NoBody, current_user, 403,
                                [message |-> "Access denied"])
                    ELSE Served("get_all_users", cred, NoBody, current_user, 200,
                                users_json(users))
             /\ UNCHANGED <<users, records, tokens, now>>

(* POST /api/admin/records *)

admin_add_record(cred, data) ==
    IF verify_jwt_in_request(cred, now) # "ok"
    THEN Rejected("admin_add_record", cred)
    ELSE LET current_user == get_jwt_identity(cred)
         IN  IF access_denied(current_user)
             THEN /\ last' = Served("admin_add_record", cred, data, current_user, 403,
                                    [message |-> "Access denied"])
                  /\ UNCHANGED <<users, records, tokens, now>>
             ELSE \* SQLite does not enforce the foreign key: any user_id is stored
                  /\ next_id(records) <= MaxRecordId
                  /\ records' = Append(records,
                         FinancialRecord(next_id(records), data.user_id,
                                         data.month, data.year, data.paid_in))
                  /\ last' = Served("admin_add_record", cred, data, current_user, 201,
                                    [message |-> "Record added successfully!"])
                  /\ UNCHANGED <<users, tokens, now>>

----------------------------------------------------------------------------
(* Time passes *)

Tick ==
    /\ now < MaxTime
    /\ now' = now + 1
    /\ UNCHANGED <<users, records, tokens, last>>

----------------------------------------------------------------------------

Next ==
    \/ \E data \in RegisterBodies : register(data)
    \/ \E data \in LoginBodies : login(data)
    \/ \E cred \in Credentials : get_records(cred)
    \/ \E cred \in Credentials, data \in RecordBodies : add_record(cred, data)
    \/ \E cred \in Credentials : get_user_details(cred)
    \/ \E cred \in Credentials : get_graph_data(cred)
    \/ \E cred \in Credentials, id \in RecordIds : delete_record(cred, id)
    \/ \E cred \in Credentials : get_all_users(cred)
    \/ \E cred \in Credentials, data \in AdminRecordBodies : admin_add_record(cred, data)
    \/ Tick

Spec == Init /\ [][Next]_vars

----------------------------------------------------------------------------
(* GET /api/graph-data over every record table up to MaxGraphLen rows:     *)
(* two registered and logged-in users, and a table the routes can build    *)
(* (add_record and admin_add_record accept any month, year and paid_in).   *)

GraphMonths == {<<"J">>, <<"J", " ", "1">>}
GraphYears == {1, 11}
GraphAmounts == {100, 50}
GraphRows ==
    [user_id : {1, 2}, month : GraphMonths, year : GraphYears, paid_in : GraphAmounts]

\* the table holding the rows f[1..n] under the ids 1..n
GraphTable(n, f) ==
    [i \in 1..n |->
        FinancialRecord(i, f[i].user_id, f[i].month, f[i].year, f[i].paid_in)]

GraphUsers ==
    << User(1, Ann.name, Ann.email, generate_password_hash(Ann.password), "user"),
       User(2, Bob.name, Bob.email, generate_password_hash(Bob.password), Bob.role) >>

InitGraph ==
    /\ users = GraphUsers
    /\ \E n \in 0..MaxGraphLen : \E f \in [1..n -> GraphRows] :
           records = GraphTable(n, f)
    /\ tokens = [e \in Emails |->
                    create_access_token(
                        login_identity(CHOOSE u \in Range(GraphUsers) : u.email = e), 0)]
    /\ now = 0
    /\ last = Served("none", NoHeader, NoBody, NoIdentity, 0, NoBody)

NextGraph == \E cred \in IssuedTokens \cup {NoHeader} : get_graph_data(cred)

SpecGraph == InitGraph /\ [][NextGraph]_vars

----------------------------------------------------------------------------
(* Vocabulary of the properties *)

ProtectedOps ==
    {"get_records", "add_record", "get_user_details", "get_graph_data",
     "delete_record", "get_all_users", "admin_add_record"}

AdminOps == {"get_all_users", "admin_add_record"}

\* A step that serves a request: every route sets last and leaves the clock;
\* only Tick moves the clock.
ServedIn(ops) == now' = now /\ last'.op \in ops

WellSigned(cred) == cred.kind = "jwt" /\ cred.key = JWT_SECRET_KEY
LiveAt(cred, t) == WellSigned(cred) /\ t < cred.exp

ErrorOnly(body) == DOMAIN body = {"msg"} \/ DOMAIN body = {"message"}

----------------------------------------------------------------------------
(* C1: a register request whose email an existing user holds fails with a *)
(* client error (4xx, DuplicateEmail), creates no second user with that    *)
(* email and leaves the existing users' stored fields unchanged.           *)
C1_DuplicateEmailIsClientError ==
    [][ (ServedIn({"register"})
            /\ \E u \in Range(users) : u.email = last'.req.email)
        => /\ last'.status \in 400..499
           /\ users' = users ]_vars

(* C2: on every protected route a request whose token is missing,*)
(* unparseable or invalid is rejected with 401 before the handler body     *)
(* runs, the stores are unchanged and no stored data is returned.          *)
C2_InvalidTokenIs401 ==
    [][ (ServedIn(ProtectedOps) /\ ~LiveAt(last'.cred, now))
        => /\ last'.status = 401
           /\ last'.current_user = NoIdentity
           /\ ErrorOnly(last'.body)
           /\ users' = users /\ records' = records ]_vars

(* What the routes do with such a request: a missing or expired token is   *)
(* rejected with 401, an unparseable or wrongly signed one with 422, in    *)
(* each case before the handler body runs: the stores are unchanged and    *)
(* the response carries an error message only.                             *)
InvalidTokenRejected ==
    [][ (ServedIn(ProtectedOps) /\ ~LiveAt(last'.cred, now))
        => /\ last'.status =
                 IF last'.cred.kind = "none" \/ WellSigned(last'.cred)
                 THEN 401 ELSE 422
           /\ last'.current_user = NoIdentity
           /\ ErrorOnly(last'.body)
           /\ users' = users /\ records' = records ]_vars

\* a forged admin token is turned away from a route while records exist
ForgedTokenRejected ==
    /\ last.op = "delete_record"
    /\ last.cred \in ForgedTokens
    /\ last.status = 422
    /\ records # <<>>

(* C3: on the admin routes a live token whose role is not admin gets 403,  *)
(* no record is created and no user list returned; no token gets 401; only *)
(* a live token with role admin reaches the listing or the insertion.      *)
C3_AdminGate ==
    [][ ServedIn(AdminOps)
        => LET cred == last'.cred
               admin == LiveAt(cred, now) /\ cred.identity.role = "admin"
           IN  /\ (LiveAt(cred, now) /\ cred.identity.role # "admin")
                     => /\ last'.status = 403
                        /\ last'.body = [message |-> "Access denied"]
                        /\ records' = records
               /\ cred.kind = "none" => last'.status = 401
               /\ last'.status \in {200, 201} => admin
               /\ records' # records => admin
               /\ admin => last'.status =
                              IF last'.op = "get_all_users" THEN 200 ELSE 201
               /\ users' = users ]_vars

\* a logged-in non-admin was refused the insertion
C3_Witness ==
    /\ last.op = "admin_add_record"
    /\ last.status = 403
    /\ last.cred \in IssuedTokens
    /\ last.current_user.role = "user"

(* C4: a delete removes at most the record whose id is asked for and whose *)
(* user_id is the caller's; asked by another user B (admin or not) for a   *)
(* record of A it answers 404 and the record is still listed for A.        *)
C4_DeleteOnlyOwn ==
    [][ ServedIn({"delete_record"})
        => LET cred == last'.cred
           IN  /\ \A r \in Range(records) :
                      r \notin Range(records')
                          => /\ LiveAt(cred, now)
                             /\ r.id = last'.req.id
                             /\ r.user_id = cred.identity.id
               /\ LiveAt(cred, now)
                     => \A r \in Range(records) :
                            (r.id = last'.req.id /\ r.user_id # cred.identity.id)
                                => /\ last'.status = 404
                                   /\ r \in Range(records_of(records', r.user_id))
               /\ Range(records') \subseteq Range(records)
               /\ users' = users ]_vars

\* an admin asked to delete another user's record, which is still there
C4_Witness ==
    /\ last.op = "delete_record"
    /\ last.status = 404
    /\ last.current_user.role = "admin"
    /\ \E r \in Range(records) :
           r.id = last.req.id /\ r.user_id # last.current_user.id

(* C5: every stored user's role is "user" or "admin". *)
C5_RoleIsUserOrAdmin ==
    \A u \in Range(users) : u.role \in {"user", "admin"}

(* C6: every stored record's user_id is the id of a stored user. *)
C6_RecordsReferenceUsers ==
    \A r \in Range(records) : \E u \in Range(users) : u.id = r.user_id

(* C7: a token of login expires a fixed time after it is issued; on a      *)
(* protected route it is accepted before its expiry and the handler runs   *)
(* with its identity, it is rejected with 401 after its expiry, and a      *)
(* token rejected for expiry is rejected for expiry ever after.            *)
C7_TokenExpiry ==
    [][ /\ (ServedIn({"login"}) /\ last'.status = 200)
            => last'.body.token.exp = now + JWT_ACCESS_TOKEN_EXPIRES
        /\ (ServedIn(ProtectedOps) /\ last'.cred \in IssuedTokens)
            => /\ now < last'.cred.exp
                    => /\ last'.status \notin {401, 422}
                       /\ last'.current_user = last'.cred.identity
               /\ now > last'.cred.exp
                    => /\ last'.status = 401
                       /\ last'.current_user = NoIdentity
                       /\ records' = records
        /\ \A t \in IssuedTokens :
               verify_jwt_in_request(t, now) = "ExpiredSignatureError"
                   => verify_jwt_in_request(t, now') = "ExpiredSignatureError" ]_vars

\* a token login issued was presented after its expiry and rejected
C7_Witness ==
    /\ last.op \in ProtectedOps
    /\ last.cred \in IssuedTokens
    /\ last.cred.exp < now
    /\ last.status = 401

(* C8: login with a registered user's email and password answers 200 with  *)
(* a token whose identity is that user's id and role; no operation changes *)
(* or removes a user, so every issued token names a stored user's id and   *)
(* role in every later state.                                              *)
C8_TokenNamesStoredUser ==
    /\ [](\A t \in IssuedTokens :
              \E u \in Range(users) :
                  t.identity = [id |-> u.id, role |-> u.role])
    /\ [][ /\ ServedIn({"login"})
               => \A u \in Range(users) :
                      (u.email = last'.req.email
                          /\ check_password_hash(u.password, last'.req.password))
                      => /\ last'.status = 200
                         /\ last'.body.token.identity = [id |-> u.id, role |-> u.role]
                         /\ WellSigned(last'.body.token)
                         /\ last'.body.token \in { tokens'[e] : e \in Emails }
           /\ Len(users') >= Len(users)
           /\ SubSeq(users', 1, Len(users)) = users ]_vars

\* an admin logged in and holds a token naming its id and role
C8_Witness ==
    /\ last.op = "login"
    /\ last.status = 200
    /\ last.body.token.identity.role = "admin"
    /\ last.body.token \in IssuedTokens
    /\ Len(users) = 2

(* C9: a login with an email no user holds and a login with a registered   *)
(* email and a wrong password get the same response, 401 "Invalid          *)
(* credentials" with no token, and neither changes the store.              *)
C9_LoginFailuresAlike ==
    /\ [](\A d1, d2 \in LoginBodies :
              (/\ \A u \in Range(users) : u.email # d1.email
               /\ \E u \in Range(users) :
                      /\ u.email = d2.email
                      /\ u.password # generate_password_hash(d2.password))
              => /\ login_response(d1) = login_response(d2)
                 /\ login_response(d1) =
                        [status |-> 401, body |-> [message |-> "Invalid credentials"]])
    /\ [][ (ServedIn({"login"}) /\ last'.status # 200)
           => /\ <<last'.status, last'.body>> =
                     <<401, [message |-> "Invalid credentials"]>>
              /\ <<users', records', tokens'>> = <<users, records, tokens>> ]_vars

\* a wrong password was refused while some other email is still unregistered
C9_Witness ==
    /\ last.op = "login"
    /\ last.status = 401
    /\ \E u \in Range(users) : u.email = last.req.email
    /\ \E e \in Emails : \A u \in Range(users) : u.email # e

(* C10: graph-data for caller U gives, over U's records in stored order,   *)
(* one label "{month} {year}" per distinct month-year pair in order of     *)
(* first occurrence, with the paid_in of the first record of each label;   *)
(* labels and values have equal length and no label is repeated.           *)
LabelOf(r) == r.month \o <<" ">> \o IntToStr(r.year)

FirstWith(recs, label) ==
    CHOOSE i \in DOMAIN recs :
        /\ LabelOf(recs[i]) = label
        /\ \A j \in 1..(i - 1) : LabelOf(recs[j]) # label

GraphOf(recs, g) ==
    /\ Len(g.labels) = Len(g.values)
    /\ \A j, k \in DOMAIN g.labels : j # k => g.labels[j] # g.labels[k]
    /\ Range(g.labels) = { LabelOf(r) : r \in Range(recs) }
    /\ Len(g.labels) = Cardinality({ <<r.month, r.year>> : r \in Range(recs) })
    /\ \A k \in DOMAIN g.labels :
           g.values[k] = recs[FirstWith(recs, g.labels[k])].paid_in
    /\ \A j, k \in DOMAIN g.labels :
           j < k => FirstWith(recs, g.labels[j]) < FirstWith(recs, g.labels[k])

C10_GraphFirstOccurrence ==
    /\ \A u \in Range(users) :
           GraphOf(records_of(records, u.id), graph_data(records_of(records, u.id)))
    /\ (last.op = "get_graph_data" /\ last.status = 200)
           => /\ DOMAIN last.body = {"labels", "values"}
              /\ GraphOf(records_of(records, last.current_user.id), last.body)

\* the caller has three records, two of them under one label
C10_Witness ==
    /\ last.op = "get_graph_data"
    /\ last.status = 200
    /\ Len(records_of(records, last.current_user.id)) = 3
    /\ Len(last.body.labels) = 2
    /\ last.body.values[1] # records_of(records, last.current_user.id)[2].paid_in
    /\ LabelOf(records_of(records, last.current_user.id)[2]) = last.body.labels[1]

====
